---- MODULE Spec2Model ----
(***************************************************************************)
(* A model of route-recognizer (src/lib/router.js, the module that starts  *)
(* at line 282): the pattern parser, the automaton built by add, the       *)
(* recognizer with its specificity resolution and capture extraction, the  *)
(* named-route registry and the generator.                                 *)
(*                                                                         *)
(* JavaScript strings are sequences of one-character strings.  A value     *)
(* that may be undefined is None or Some(v).  An exception is a sequence   *)
(* holding the name of the error, which no string of the model equals.     *)
(***************************************************************************)
EXTENDS Integers, Sequences, FiniteSets, TLC

None == <<>>
Some(x) == <<x>>

\* ------------------------------------------------------------------------
\* String primitives of the language

\* String.prototype.indexOf for one character, 1-based; 0 when absent (JS -1).
indexOf(s, c) ==
  IF \E k \in 1..Len(s) : s[k] = c
  THEN CHOOSE k \in 1..Len(s) : s[k] = c /\ \A j \in 1..(k - 1) : s[j] # c
  ELSE 0

\* String.prototype.split for a one-character separator.
RECURSIVE split(_, _)
split(s, sep) ==
  LET i == indexOf(s, sep)
  IN IF i = 0 THEN <<s>>
     ELSE <<SubSeq(s, 1, i - 1)>> \o split(SubSeq(s, i + 1, Len(s)), sep)

\* Concatenation of a sequence of strings.
RECURSIVE concat(_)
concat(ss) == IF ss = <<>> THEN <<>> ELSE Head(ss) \o concat(Tail(ss))

\* object[key] = value
setKey(object, key, value) ==
  [k \in DOMAIN object \cup {key} |-> IF k = key THEN value ELSE object[k]]

URIError == <<"URIError">>
TypeError == <<"TypeError">>

\* The characters percent-encoding rewrites, with their two hex digits.  Every
\* other character of the model is a letter or a digit, which
\* encodeURIComponent leaves alone.
PctCode == [c \in {"/", "$", "%", "?", "#", "&", "=", "+", " ", "[", "]"} |->
              CASE c = "/" -> <<"2", "F">>
                [] c = "$" -> <<"2", "4">>
                [] c = "%" -> <<"2", "5">>
                [] c = "?" -> <<"3", "F">>
                [] c = "#" -> <<"2", "3">>
                [] c = "&" -> <<"2", "6">>
                [] c = "=" -> <<"3", "D">>
                [] c = "+" -> <<"2", "B">>
                [] c = " " -> <<"2", "0">>
                [] c = "[" -> <<"5", "B">>
                [] c = "]" -> <<"5", "D">>]

\* The reserved characters decodeURI leaves encoded (";/?:@&=+$,#").
UriReserved == {"/", "$", "?", "#", "&", "=", "+"}

encodeChar(c) == IF c \in DOMAIN PctCode THEN <<"%">> \o PctCode[c] ELSE <<c>>

RECURSIVE encodeURIComponent(_)
encodeURIComponent(s) ==
  IF s = <<>> THEN <<>> ELSE encodeChar(Head(s)) \o encodeURIComponent(Tail(s))

\* Percent-decoding, shared by decodeURIComponent and decodeURI: `kept` are the
\* characters whose escape is left as it is.  A '%' that two hex digits of a
\* known escape do not follow is malformed: URIError.  (The strings of the
\* model hold no other well-formed escape.)
RECURSIVE decodeWith(_, _)
decodeWith(s, kept) ==
  IF s = <<>> THEN <<>>
  ELSE IF Head(s) # "%"
    THEN LET r == decodeWith(Tail(s), kept)
         IN IF r = URIError THEN URIError ELSE <<Head(s)>> \o r
  ELSE IF Len(s) < 3 \/ ~ \E c \in DOMAIN PctCode : PctCode[c] = SubSeq(s, 2, 3)
    THEN URIError
  ELSE LET c == CHOOSE d \in DOMAIN PctCode : PctCode[d] = SubSeq(s, 2, 3)
           r == decodeWith(SubSeq(s, 4, Len(s)), kept)
       IN IF r = URIError THEN URIError
          ELSE IF c \in kept THEN SubSeq(s, 1, 3) \o r
          ELSE <<c>> \o r

decodeURIComponent(s) == decodeWith(s, {})

decodeURI(s) == decodeWith(s, UriReserved)

\* ------------------------------------------------------------------------
\* The normalizer (./route-recognizer/normalizer): percent-encoded characters
\* are decoded, except '%' and '/', which stay encoded.

RECURSIVE encodeReserved(_)
encodeReserved(s) ==
  IF s = <<>> THEN <<>>
  ELSE (IF Head(s) \in {"%", "/"} THEN encodeChar(Head(s)) ELSE <<Head(s)>>)
         \o encodeReserved(Tail(s))

normalizeSegment(segment) ==
  IF Len(segment) < 3 \/ indexOf(segment, "%") = 0 THEN segment
  ELSE LET d == decodeURIComponent(segment)
       IN IF d = URIError THEN URIError ELSE encodeReserved(d)

RECURSIVE joinSlash(_)
joinSlash(ss) ==
  IF Len(ss) = 1 THEN ss[1] ELSE ss[1] \o <<"/">> \o joinSlash(Tail(ss))

normalizePath(path) ==
  LET segs == split(path, "/")
      norm == [i \in 1..Len(segs) |-> normalizeSegment(segs[i])]
  IN IF \E i \in 1..Len(segs) : norm[i] = URIError THEN URIError
     ELSE joinSlash(norm)

\* ------------------------------------------------------------------------
\* Segments

specials == {"/", ".", "*", "+", "?", "|", "(", ")", "[", "]", "{", "}", "\\"}

\* string.replace(escapeRegex, '\\$1')
RECURSIVE escapeRegex(_)
escapeRegex(s) ==
  IF s = <<>> THEN <<>>
  ELSE (IF Head(s) \in specials THEN <<"\\", Head(s)>> ELSE <<Head(s)>>)
         \o escapeRegex(Tail(s))

StaticSegment(string) == [type |-> "static", string |-> normalizeSegment(string), name |-> <<>>]
DynamicSegment(name) == [type |-> "dynamic", string |-> <<>>, name |-> normalizeSegment(name)]
StarSegment(name) == [type |-> "star", string |-> <<>>, name |-> name]
EpsilonSegment == [type |-> "epsilon", string |-> <<>>, name |-> <<>>]

dynamicRegex == <<"(", "[", "^", "/", "]", "+", ")">>
starRegex == <<"(", ".", "+", ")">>

\* Segment.prototype.regex
segmentRegex(segment) ==
  CASE segment.type = "static" -> escapeRegex(segment.string)
    [] segment.type = "dynamic" -> dynamicRegex
    [] segment.type = "star" -> starRegex
    [] segment.type = "epsilon" -> <<>>

\* ------------------------------------------------------------------------
\* parse(route, names, specificity, shouldDecodes): the segments of one route,
\* the names and decode flags it pushes, and the specificity it leaves in
\* specificity.val.

\* A parse that ranks a Dynamic segment above a Static one.
parseSegmentSwapped(segment) ==
  IF Len(segment) >= 2 /\ segment[1] = ":"
    THEN [result |-> DynamicSegment(Tail(segment)), names |-> <<Tail(segment)>>,
          shouldDecodes |-> <<TRUE>>, digit |-> 4]
  ELSE IF Len(segment) >= 2 /\ segment[1] = "*"
    THEN [result |-> StarSegment(Tail(segment)), names |-> <<Tail(segment)>>,
          shouldDecodes |-> <<FALSE>>, digit |-> 1]
  ELSE IF segment = <<>>
    THEN [result |-> EpsilonSegment, names |-> <<>>, shouldDecodes |-> <<>>, digit |-> 2]
  ELSE [result |-> StaticSegment(segment), names |-> <<>>, shouldDecodes |-> <<>>, digit |-> 3]

parseSegment(segment) ==
  IF Len(segment) >= 2 /\ segment[1] = ":"
    THEN [result |-> DynamicSegment(Tail(segment)), names |-> <<Tail(segment)>>,
          shouldDecodes |-> <<TRUE>>, digit |-> 3]
  ELSE IF Len(segment) >= 2 /\ segment[1] = "*"
    THEN [result |-> StarSegment(Tail(segment)), names |-> <<Tail(segment)>>,
          shouldDecodes |-> <<FALSE>>, digit |-> 1]
  ELSE IF segment = <<>>
    THEN [result |-> EpsilonSegment, names |-> <<>>, shouldDecodes |-> <<>>, digit |-> 2]
  ELSE [result |-> StaticSegment(segment), names |-> <<>>, shouldDecodes |-> <<>>, digit |-> 4]

\* The number a string of digits denotes (the unary plus of line 435).
RECURSIVE toNumber(_)
toNumber(digits) ==
  IF digits = <<>> THEN 0
  ELSE 10 * toNumber(SubSeq(digits, 1, Len(digits) - 1)) + digits[Len(digits)]

\* The loop of lines 413-433 done, `parsed` holding what each segment gave.
parsed(segments) ==
  [results |-> [i \in 1..Len(segments) |-> segments[i].result],
   names |-> concat([i \in 1..Len(segments) |-> segments[i].names]),
   shouldDecodes |-> concat([i \in 1..Len(segments) |-> segments[i].shouldDecodes]),
   specificity |-> toNumber([i \in 1..Len(segments) |-> segments[i].digit])]

parseSegments(segments) == parsed([i \in 1..Len(segments) |-> parseSegment(segments[i])])

parse(route) ==
  parseSegments(split(IF Len(route) > 0 /\ route[1] = "/" THEN Tail(route) ELSE route, "/"))

\* ------------------------------------------------------------------------
\* States.  The automaton is an arena: a sequence of states, a state's
\* nextStates holding indices into it; index 1 is rootState.

State(charSpec) ==
  [charSpec |-> charSpec, nextStates |-> <<>>, regex |-> None, handlers |-> None,
   specificity |-> None]

isEqualCharSpec(specA, specB) ==
  specA.validChars = specB.validChars /\ specA.invalidChars = specB.invalidChars

\* A get that finds no child.
getNone(states, this, charSpec) == 0

\* State.prototype.get: the index of the first child with an equal charSpec,
\* 0 when there is none.
get(states, this, charSpec) ==
  LET nextStates == states[this].nextStates
      hits == {i \in 1..Len(nextStates) :
                 isEqualCharSpec(states[nextStates[i]].charSpec, charSpec)}
  IN IF hits = {} THEN 0
     ELSE nextStates[CHOOSE i \in hits : \A j \in hits : i <= j]

\* A put that makes every new state a child of itself.
putLooping(states, this, charSpec) ==
  IF get(states, this, charSpec) # 0
    THEN [states |-> states, state |-> get(states, this, charSpec)]
    ELSE [states |-> Append([states EXCEPT ![this].nextStates = Append(@, Len(states) + 1)],
                            [State(charSpec) EXCEPT !.nextStates = <<Len(states) + 1>>]),
          state |-> Len(states) + 1]

\* State.prototype.put: the arena afterwards and the state returned.
put(states, this, charSpec) ==
  LET existing == get(states, this, charSpec)
      new == Len(states) + 1
      state == [State(charSpec) EXCEPT
                  !.nextStates = IF charSpec.repeat THEN <<new>> ELSE <<>>]
  IN IF existing # 0 THEN [states |-> states, state |-> existing]
     ELSE [states |-> Append([states EXCEPT ![this].nextStates = Append(@, new)], state),
           state |-> new]

slashSpec == [invalidChars |-> None, repeat |-> FALSE, validChars |-> Some(<<"/">>)]

\* Segment.prototype.eachChar
RECURSIVE staticEachChar(_, _, _)
staticEachChar(states, currentState, string) ==
  IF string = <<>> THEN [states |-> states, state |-> currentState]
  ELSE LET p == put(states, currentState,
                    [invalidChars |-> None, repeat |-> FALSE, validChars |-> Some(<<Head(string)>>)])
       IN staticEachChar(p.states, p.state, Tail(string))

eachChar(states, currentState, segment) ==
  CASE segment.type = "static" -> staticEachChar(states, currentState, segment.string)
    [] segment.type = "dynamic" ->
         put(states, currentState, [invalidChars |-> Some(<<"/">>), repeat |-> TRUE, validChars |-> None])
    [] segment.type = "star" ->
         put(states, currentState, [invalidChars |-> Some(<<>>), repeat |-> TRUE, validChars |-> None])
    [] segment.type = "epsilon" -> [states |-> states, state |-> currentState]

\* ------------------------------------------------------------------------
\* RouteRecognizer.prototype.add

\* Lines 640-646 for one segment that is not an EpsilonSegment, `slash` being
\* what the put of '/' returned.
addSegment(slash, regex, segment) ==
  [put |-> eachChar(slash.states, slash.state, segment),
   regex |-> regex \o <<"/">> \o segmentRegex(segment)]

\* The inner loop of add (lines 633-647) over the segments of one route.
RECURSIVE addSegments(_, _, _, _, _)
RECURSIVE addSegmentsAfter(_, _)
addSegments(states, currentState, regex, isEmpty, segments) ==
  IF segments = <<>>
    THEN [states |-> states, currentState |-> currentState, regex |-> regex,
          isEmpty |-> isEmpty]
  ELSE IF Head(segments).type = "epsilon"
    THEN addSegments(states, currentState, regex, isEmpty, Tail(segments))
  ELSE addSegmentsAfter(addSegment(put(states, currentState, slashSpec), regex, Head(segments)),
                        Tail(segments))

addSegmentsAfter(added, segments) ==
  addSegments(added.put.states, added.put.state, added.regex, FALSE, segments)

\* An add that keeps the specificity of the first route of the batch.
routeAddedFirst(acc, route, parsedRoute, walked) ==
  [states |-> walked.states, currentState |-> walked.currentState, regex |-> walked.regex,
   isEmpty |-> walked.isEmpty,
   specificity |-> IF acc.specificity.val = None
                     THEN [val |-> Some(parsedRoute.specificity)] ELSE acc.specificity,
   handlers |-> Append(acc.handlers,
                       [handler |-> route.handler, names |-> parsedRoute.names,
                        shouldDecodes |-> parsedRoute.shouldDecodes]),
   allSegments |-> acc.allSegments \o parsedRoute.results]

\* Lines 648-649 and the locals of add when one more route is done.
routeAdded(acc, route, parsedRoute, walked) ==
  [states |-> walked.states, currentState |-> walked.currentState, regex |-> walked.regex,
   isEmpty |-> walked.isEmpty, specificity |-> [val |-> Some(parsedRoute.specificity)],
   handlers |-> Append(acc.handlers,
                       [handler |-> route.handler, names |-> parsedRoute.names,
                        shouldDecodes |-> parsedRoute.shouldDecodes]),
   allSegments |-> acc.allSegments \o parsedRoute.results]

\* Lines 627-647 for one route, `parsedRoute` being what parse returned.
addRoute(acc, route, parsedRoute) ==
  routeAdded(acc, route, parsedRoute,
             addSegments(acc.states, acc.currentState, acc.regex, acc.isEmpty,
                         parsedRoute.results))

\* The outer loop of add (lines 626-650) over the routes of the batch.
RECURSIVE addRoutes(_, _)
addRoutes(acc, routes) ==
  IF routes = <<>> THEN acc
  ELSE addRoutes(addRoute(acc, Head(routes), parse(Head(routes).path)), Tail(routes))

\* An add that marks the state it stands on, the root for a batch with no
\* segment that is not Epsilon.
closeOnRoot(looped, slash) ==
  [states |-> looped.states, currentState |-> looped.currentState,
   regex |-> IF looped.isEmpty THEN looped.regex \o <<"/">> ELSE looped.regex]

\* Lines 652-655: the put of '/' for a batch of no segment but empty ones.
closeEmpty(looped, slash) ==
  IF looped.isEmpty
    THEN [states |-> slash.states, currentState |-> slash.state,
          regex |-> looped.regex \o <<"/">>]
    ELSE [states |-> looped.states, currentState |-> looped.currentState,
          regex |-> looped.regex]

\* An add that leaves an accepting state as the first batch marked it.
markKeeping(this, as, looped, final) ==
  [states |-> IF final.states[final.currentState].handlers # None THEN final.states
              ELSE [final.states EXCEPT
                      ![final.currentState].handlers = Some(looped.handlers),
                      ![final.currentState].regex = Some(final.regex \o <<"$">>),
                      ![final.currentState].specificity = Some(looped.specificity)],
   currentState |-> final.currentState,
   names |-> IF as = None \/ as = Some(<<>>) THEN this.names
             ELSE setKey(this.names, as[1],
                         [segments |-> looped.allSegments, handlers |-> looped.handlers])]

\* An add that appends its handlers to those the state already has.
markAppending(this, as, looped, final) ==
  [states |-> [final.states EXCEPT
                 ![final.currentState].handlers =
                    IF @ = None THEN Some(looped.handlers) ELSE Some(@[1] \o looped.handlers),
                 ![final.currentState].regex = Some(final.regex \o <<"$">>),
                 ![final.currentState].specificity = Some(looped.specificity)],
   currentState |-> final.currentState,
   names |-> IF as = None \/ as = Some(<<>>) THEN this.names
             ELSE setKey(this.names, as[1],
                         [segments |-> looped.allSegments, handlers |-> looped.handlers])]

\* Lines 657-666: the accepting state marked and the name registered.
markAccepting(this, as, looped, final) ==
  [states |-> [final.states EXCEPT
                 ![final.currentState].handlers = Some(looped.handlers),
                 ![final.currentState].regex = Some(final.regex \o <<"$">>),
                 ![final.currentState].specificity = Some(looped.specificity)],
   currentState |-> final.currentState,
   names |-> IF as = None \/ as = Some(<<>>) THEN this.names
             ELSE setKey(this.names, as[1],
                         [segments |-> looped.allSegments, handlers |-> looped.handlers])]

addLooped(this, as, looped) ==
  markAccepting(this, as, looped,
                closeEmpty(looped, put(looped.states, looped.currentState, slashSpec)))

\* The engine after add(routes, options), with the state add marked accepting:
\* options.as is `as`, None without it.
add(this, routes, as) ==
  addLooped(this, as,
            addRoutes([states |-> this.states, currentState |-> 1, regex |-> <<"^">>,
                       isEmpty |-> TRUE, specificity |-> [val |-> None],
                       handlers |-> <<>>, allSegments |-> <<>>], routes))

\* ------------------------------------------------------------------------
\* String.prototype.match against the RegExp compiled from a state's regex
\* source.  The sources add builds hold only: a leading '^', literal
\* characters, escaped characters, the two capture groups, and '$' (the end
\* of the source, or an unescaped '$' of a static segment); an unescaped '^'
\* or '$' is an assertion about the position, not a character to match.

isPrefix(p, s) == Len(p) <= Len(s) /\ SubSeq(s, 1, Len(p)) = p

RECURSIVE regexTokens(_)
regexTokens(source) ==
  IF source = <<>> THEN <<>>
  ELSE IF isPrefix(dynamicRegex, source)
    THEN <<[t |-> "dynamic", c |-> ""]>>
           \o regexTokens(SubSeq(source, Len(dynamicRegex) + 1, Len(source)))
  ELSE IF isPrefix(starRegex, source)
    THEN <<[t |-> "star", c |-> ""]>>
           \o regexTokens(SubSeq(source, Len(starRegex) + 1, Len(source)))
  ELSE IF Head(source) = "\\" /\ Len(source) >= 2
    THEN <<[t |-> "char", c |-> source[2]]>> \o regexTokens(SubSeq(source, 3, Len(source)))
  ELSE IF Head(source) = "^"
    THEN <<[t |-> "start", c |-> ""]>> \o regexTokens(Tail(source))
  ELSE IF Head(source) = "$"
    THEN <<[t |-> "end", c |-> ""]>> \o regexTokens(Tail(source))
  ELSE <<[t |-> "char", c |-> Head(source)]>> \o regexTokens(Tail(source))

\* The longest run of characters from position si that the group may take.
RECURSIVE groupMax(_, _, _)
groupMax(str, si, type) ==
  IF si > Len(str) \/ (type = "dynamic" /\ str[si] = "/") THEN 0
  ELSE 1 + groupMax(str, si + 1, type)

\* The groups captured by matching tokens ti.. at position si of str, as
\* Some(groups), or None when there is no match.  A group is greedy: it takes
\* the longest run that lets the rest match.
RECURSIVE matchFrom(_, _, _, _)
RECURSIVE matchGroup(_, _, _, _, _)
RECURSIVE matchRest(_, _, _, _, _, _)
matchFrom(tokens, str, ti, si) ==
  IF ti > Len(tokens) THEN Some(<<>>)
  ELSE LET tok == tokens[ti]
       IN CASE tok.t = "start" -> IF si = 1 THEN matchFrom(tokens, str, ti + 1, si) ELSE None
            [] tok.t = "end" ->
                 IF si = Len(str) + 1 THEN matchFrom(tokens, str, ti + 1, si) ELSE None
            [] tok.t = "char" ->
                 IF si <= Len(str) /\ str[si] = tok.c
                   THEN matchFrom(tokens, str, ti + 1, si + 1) ELSE None
            [] OTHER -> matchGroup(tokens, str, ti, si, groupMax(str, si, tok.t))

matchGroup(tokens, str, ti, si, k) ==
  IF k = 0 THEN None
  ELSE matchRest(tokens, str, ti, si, k, matchFrom(tokens, str, ti + 1, si + k))

matchRest(tokens, str, ti, si, k, rest) ==
  IF rest # None THEN Some(<<SubSeq(str, si, si + k - 1)>> \o rest[1])
  ELSE matchGroup(tokens, str, ti, si, k - 1)

\* str.match(regex): None for null, else Some(captures), captures[1] being the
\* whole match (index 0 of the JS array) and captures[k + 1] group k.
matched(str, groups) == IF groups = None THEN None ELSE Some(<<str>> \o groups[1])

match(str, regex) == matched(str, matchFrom(regexTokens(regex), str, 1, 1))

\* ------------------------------------------------------------------------
\* Objects created by `{}` inherit the properties of Object.prototype: a lookup
\* of one of these keys on an object that has no such own property yields a
\* function, which is truthy and has no push, handlers or segments.
ObjectPrototypeKeys ==
  {<<"c", "o", "n", "s", "t", "r", "u", "c", "t", "o", "r">>,
   <<"t", "o", "S", "t", "r", "i", "n", "g">>,
   <<"v", "a", "l", "u", "e", "O", "f">>}

\* ------------------------------------------------------------------------
\* The query string

RECURSIVE replacePlus(_)
replacePlus(part) ==
  IF part = <<>> THEN <<>>
  ELSE (IF Head(part) = "+" THEN <<"%", "2", "0">> ELSE <<Head(part)>>)
         \o replacePlus(Tail(part))

caught(result) == IF result = URIError THEN <<>> ELSE result

decodeQueryParamPart(part) == caught(decodeURIComponent(replacePlus(part)))

\* A value of the queryParams object: a string or an array of strings.
\* A value a caller hands to generateQueryString may also be null.
scalarValue(v) == [array |-> FALSE, null |-> FALSE, value |-> v, items |-> <<>>]
arrayValue(items) == [array |-> TRUE, null |-> FALSE, value |-> <<>>, items |-> items]
nullValue == [array |-> FALSE, null |-> TRUE, value |-> <<>>, items |-> <<>>]

\* !!queryParams[key]
queryParamTruthy(queryParams, key) ==
  IF key \in DOMAIN queryParams
    THEN queryParams[key].array \/ queryParams[key].value # <<>>
    ELSE key \in ObjectPrototypeKeys

\* Lines 764-768: the value stored, or pushed on the array the key holds; the
\* push on what is not an array is a TypeError (threw).
storePair(queryParams, key, isArray, value) ==
  IF ~ isArray
    THEN [threw |-> FALSE, queryParams |-> setKey(queryParams, key, scalarValue(value))]
  ELSE IF key \in DOMAIN queryParams /\ queryParams[key].array
    THEN [threw |-> FALSE,
          queryParams |-> setKey(queryParams, key,
                                 arrayValue(Append(queryParams[key].items, value)))]
  ELSE [threw |-> TRUE, queryParams |-> queryParams]

\* Lines 755-762 for a pair with an '=' whose key ends in "[]".
arrayPair(queryParams, key, value) ==
  storePair(IF queryParamTruthy(queryParams, key) THEN queryParams
            ELSE setKey(queryParams, key, arrayValue(<<>>)),
            key, TRUE, value)

\* Lines 751-763, `key` being the decoded pair[0].
keyedPair(queryParams, pair, key) ==
  IF Len(pair) = 1 THEN storePair(queryParams, key, FALSE, <<"t", "r", "u", "e">>)
  ELSE IF Len(key) > 2 /\ SubSeq(key, Len(key) - 1, Len(key)) = <<"[", "]">>
    THEN arrayPair(queryParams, SubSeq(key, 1, Len(key) - 2),
                   IF pair[2] # <<>> THEN decodeQueryParamPart(pair[2]) ELSE <<>>)
  ELSE storePair(queryParams, key, FALSE,
                 IF pair[2] # <<>> THEN decodeQueryParamPart(pair[2]) ELSE <<>>)

splitPair(queryParams, pair) == keyedPair(queryParams, pair, decodeQueryParamPart(pair[1]))

\* The body of the loop of parseQueryString for one pair.
parseQueryPair(queryParams, text) == splitPair(queryParams, split(text, "="))

RECURSIVE parseQueryPairs(_, _)
parseQueryPairs(acc, pairs) ==
  IF pairs = <<>> \/ acc.threw THEN acc
  ELSE parseQueryPairs(parseQueryPair(acc.queryParams, Head(pairs)), Tail(pairs))

parseQueryString(queryString) ==
  parseQueryPairs([threw |-> FALSE, queryParams |-> <<>>], split(queryString, "&"))

\* ------------------------------------------------------------------------
\* The walk

RECURSIVE matchChildren(_, _, _)
matchChildren(states, nextStates, ch) ==
  IF nextStates = <<>> THEN <<>>
  ELSE LET child == Head(nextStates)
           charSpec == states[child].charSpec
           taken == IF charSpec.validChars # None
                      THEN indexOf(charSpec.validChars[1], ch) # 0
                    ELSE IF charSpec.invalidChars # None
                      THEN indexOf(charSpec.invalidChars[1], ch) = 0
                    ELSE FALSE
       IN (IF taken THEN <<child>> ELSE <<>>) \o matchChildren(states, Tail(nextStates), ch)

\* State.prototype.match
stateMatch(states, this, ch) == matchChildren(states, states[this].nextStates, ch)

RECURSIVE recognizeChar(_, _, _)
recognizeChar(states, frontier, ch) ==
  IF frontier = <<>> THEN <<>>
  ELSE stateMatch(states, Head(frontier), ch) \o recognizeChar(states, Tail(frontier), ch)

\* The loop of lines 808-811: the frontier after the walk over path from
\* position i.
RECURSIVE walk(_, _, _, _)
walk(states, frontier, path, i) ==
  IF i > Len(path) THEN frontier
  ELSE LET next == recognizeChar(states, frontier, path[i])
       IN IF next = <<>> THEN next ELSE walk(states, next, path, i + 1)

RECURSIVE acceptingOf(_, _)
acceptingOf(states, frontier) ==
  IF frontier = <<>> THEN <<>>
  ELSE (IF states[Head(frontier)].handlers # None THEN <<Head(frontier)>> ELSE <<>>)
         \o acceptingOf(states, Tail(frontier))

\* ------------------------------------------------------------------------
\* sortSolutions: Array.prototype.sort leaves the order of solutions of equal
\* specificity to the implementation, and any order at all when the comparator
\* yields NaN (a specificity without val, which add leaves for a batch of no
\* routes).  The set of arrays a sort may produce.

valOf(states, state) == states[state].specificity[1].val

\* A sort in ascending order of specificity, which recognize must not be.
sortsLast(states, solutions, positions) ==
  {i \in positions :
     \A j \in positions :
       valOf(states, solutions[i])[1] <= valOf(states, solutions[j])[1]}

sortsFirst(states, solutions, positions) ==
  IF \E i \in positions : valOf(states, solutions[i]) = None THEN positions
  ELSE {i \in positions :
          \A j \in positions :
            valOf(states, solutions[j])[1] <= valOf(states, solutions[i])[1]}

RECURSIVE sortedOrders(_, _, _)
sortedOrders(states, solutions, positions) ==
  IF positions = {} THEN {<<>>}
  ELSE UNION {{<<solutions[i]>> \o rest :
                 rest \in sortedOrders(states, solutions, positions \ {i})} :
              i \in sortsFirst(states, solutions, positions)}

sortSolutions(states, solutions) == sortedOrders(states, solutions, DOMAIN solutions)

\* ------------------------------------------------------------------------
\* findHandler

undefinedString == <<"u", "n", "d", "e", "f", "i", "n", "e", "d">>

\* The loop over the names of one handler (lines 578-592): the params built,
\* the capture counter afterwards, and the error thrown ("" for none).
RECURSIVE bindNames(_, _, _, _, _, _)
RECURSIVE bindName(_, _, _, _, _, _, _)
bindNames(names, shouldDecodes, captures, currentCapture, params, encodeAndDecode) ==
  IF names = <<>> THEN [error |-> "", params |-> params, currentCapture |-> currentCapture]
  ELSE IF captures = None
    THEN [error |-> "TypeError", params |-> params, currentCapture |-> currentCapture]
  ELSE bindName(names, shouldDecodes, captures, currentCapture, params, encodeAndDecode,
                IF currentCapture + 1 > Len(captures[1]) THEN undefinedString
                ELSE IF encodeAndDecode /\ Head(shouldDecodes)
                  THEN decodeURIComponent(captures[1][currentCapture + 1])
                ELSE captures[1][currentCapture + 1])

\* A loop that does not advance currentCapture.
bindNameSameCapture(names, shouldDecodes, captures, currentCapture, params, encodeAndDecode, value) ==
  IF value = URIError
    THEN [error |-> "URIError", params |-> params, currentCapture |-> currentCapture]
  ELSE bindNames(Tail(names), Tail(shouldDecodes), captures, currentCapture,
                 setKey(params, Head(names), value), encodeAndDecode)

\* Lines 583-591, `value` being what params[name] is given.
bindName(names, shouldDecodes, captures, currentCapture, params, encodeAndDecode, value) ==
  IF value = URIError
    THEN [error |-> "URIError", params |-> params, currentCapture |-> currentCapture + 1]
  ELSE bindNames(Tail(names), Tail(shouldDecodes), captures, currentCapture + 1,
                 setKey(params, Head(names), value), encodeAndDecode)

\* Line 594.
resultEntry(handler, bound, rest) ==
  IF rest.error # "" THEN rest
  ELSE [error |-> "",
        entries |-> <<[handler |-> handler.handler, params |-> bound.params,
                       isDynamic |-> Len(handler.names) # 0]>> \o rest.entries]

\* The loop over the handlers (lines 573-595).
RECURSIVE bindHandlers(_, _, _, _)
RECURSIVE bindHandler(_, _, _, _, _)
bindHandlers(handlers, captures, currentCapture, encodeAndDecode) ==
  IF handlers = <<>> THEN [error |-> "", entries |-> <<>>]
  ELSE bindHandler(handlers, captures, encodeAndDecode, Head(handlers),
                   bindNames(Head(handlers).names, Head(handlers).shouldDecodes, captures,
                             currentCapture, <<>>, encodeAndDecode))

bindHandler(handlers, captures, encodeAndDecode, handler, bound) ==
  IF bound.error # "" THEN [error |-> bound.error, entries |-> <<>>]
  ELSE resultEntry(handler, bound,
                   bindHandlers(Tail(handlers), captures, bound.currentCapture,
                                encodeAndDecode))

handlerResult(bound, queryParams, captures) ==
  [error |-> bound.error, entries |-> bound.entries, queryParams |-> queryParams,
   captures |-> captures]

findCaptured(handlers, captures, queryParams, encodeAndDecode) ==
  handlerResult(bindHandlers(handlers, captures, 1, encodeAndDecode), queryParams, captures)

findHandler(states, state, originalPath, queryParams, encodeAndDecode) ==
  findCaptured(states[state].handlers[1], match(originalPath, states[state].regex[1]),
               queryParams, encodeAndDecode)

\* ------------------------------------------------------------------------
\* RouteRecognizer.prototype.recognize

\* The locals of recognize when an exception ends it before the walk.
thrown(error) ==
  [error |-> error, queryParams |-> <<>>, path |-> <<>>, originalPath |-> <<>>,
   isSlashDropped |-> FALSE, states |-> <<>>, solutions |-> <<>>]

\* path.substr(0, i - 1) when indexOf found i, else path.
cutAt(path, i) == IF i # 0 THEN SubSeq(path, 1, i - 1) ELSE path

\* string.substr(0, n)
substr0(string, n) == SubSeq(string, 1, IF n < Len(string) THEN n ELSE Len(string))

\* Lines 813-816: the locals when the walk and the filter are done.
solved(this, path, originalPath, isSlashDropped, queryParams, frontier) ==
  [error |-> "", queryParams |-> queryParams, path |-> path, originalPath |-> originalPath,
   isSlashDropped |-> isSlashDropped, states |-> frontier,
   solutions |-> acceptingOf(this.states, frontier)]

\* Lines 808-811.
walked(this, path, originalPath, isSlashDropped, queryParams) ==
  solved(this, path, originalPath, isSlashDropped, queryParams,
         walk(this.states, <<1>>, path, 1))

\* Lines 801-806.
dropSlash(this, path, originalPath, pathLen, queryParams) ==
  IF pathLen > 1 /\ path[pathLen] = "/"
    THEN walked(this, substr0(path, pathLen - 1), substr0(originalPath, pathLen - 1), TRUE,
                queryParams)
    ELSE walked(this, path, originalPath, FALSE, queryParams)

decoded(this, path, originalPath, queryParams) ==
  IF path = URIError THEN thrown("URIError")
  ELSE dropSlash(this, path, originalPath, Len(path), queryParams)

\* Lines 791-799.
decodePath(this, path, queryParams, encodeAndDecode) ==
  IF encodeAndDecode THEN decoded(this, normalizePath(path), path, queryParams)
  ELSE decoded(this, decodeURI(path), decodeURI(path), queryParams)

queryParsed(this, path, parsedQuery, encodeAndDecode) ==
  IF parsedQuery.threw THEN thrown("TypeError")
  ELSE decodePath(this, IF path = <<>> \/ path[1] # "/" THEN <<"/">> \o path ELSE path,
                  parsedQuery.queryParams, encodeAndDecode)

\* Lines 784-789.
splitQuery(this, path, queryStart, encodeAndDecode) ==
  queryParsed(this, cutAt(path, queryStart),
              IF queryStart # 0
                THEN parseQueryString(SubSeq(path, queryStart + 1, Len(path)))
                ELSE [threw |-> FALSE, queryParams |-> <<>>],
              encodeAndDecode)

hashCut(this, path, encodeAndDecode) ==
  splitQuery(this, path, indexOf(path, "?"), encodeAndDecode)

\* Lines 774-816: the locals when the walk and the filter are done.  error is
\* "" unless an exception ended the call before the walk.
recognizeLocals(this, input, encodeAndDecode) ==
  hashCut(this, cutAt(input, indexOf(input, "#")), encodeAndDecode)

endsWithStar(regex) ==
  Len(regex) >= 5 /\ SubSeq(regex, Len(regex) - 4, Len(regex)) = starRegex \o <<"$">>

\* A recognize that leaves the trailing '/' dropped.
keepDropped(isSlashDropped, regex, originalPath) == originalPath

\* Lines 825-827: the path findHandler is given.
restoreSlash(isSlashDropped, regex, originalPath) ==
  IF isSlashDropped /\ endsWithStar(regex) THEN originalPath \o <<"/">> ELSE originalPath

\* A recognize without the guard of line 822.
anyState(states, state) == TRUE

\* Line 822: state && state.handlers (state is 0 for undefined).
isSolution(states, state) == state # 0 /\ states[state].handlers # None

\* What the caller sees of a call of recognize, with the locals it ended with.
recognized(input, locals, sorted, state, outcome, error, originalPath, captures, entries, queryParams) ==
  [op |-> "recognize", input |-> input, states |-> locals.states, solutions |-> sorted,
   state |-> state, path |-> locals.path, isSlashDropped |-> locals.isSlashDropped,
   walked |-> locals.error = "", outcome |-> outcome, error |-> error,
   originalPath |-> originalPath, captures |-> captures, entries |-> entries,
   queryParams |-> queryParams]

handled(input, locals, sorted, state, originalPath, result) ==
  IF result.error # ""
    THEN recognized(input, locals, sorted, state, "throws", result.error, originalPath,
                    result.captures, <<>>, <<>>)
    ELSE recognized(input, locals, sorted, state, "result", "", originalPath,
                    result.captures, result.entries, result.queryParams)

\* Lines 825-828.
found(this, locals, input, encodeAndDecode, sorted, state, originalPath) ==
  handled(input, locals, sorted, state, originalPath,
          findHandler(this.states, state, originalPath, locals.queryParams, encodeAndDecode))

\* Lines 820-830; a read of a property of undefined is a TypeError.
solution(this, locals, input, encodeAndDecode, sorted, state) ==
  IF locals.error # ""
    THEN recognized(input, locals, sorted, state, "throws", locals.error, <<>>, None, <<>>, <<>>)
  ELSE IF ~ isSolution(this.states, state)
    THEN recognized(input, locals, sorted, state, "absent", "", locals.originalPath, None,
                    <<>>, <<>>)
  ELSE IF state = 0 \/ this.states[state].handlers = None
    THEN recognized(input, locals, sorted, state, "throws", "TypeError", locals.originalPath,
                    None, <<>>, <<>>)
  ELSE found(this, locals, input, encodeAndDecode, sorted, state,
             restoreSlash(locals.isSlashDropped, this.states[state].regex[1],
                          locals.originalPath))

\* Lines 818-830, `locals` being the locals after the walk and `sorted` the
\* array the sort left in solutions.  The outcome is "result", "absent"
\* (undefined) or "throws".
recognize(this, locals, input, encodeAndDecode, sorted) ==
  solution(this, locals, input, encodeAndDecode, sorted,
           IF sorted = <<>> THEN 0 ELSE sorted[1])

\* ------------------------------------------------------------------------
\* The named routes: this.names[name], an object created by `{}`.

\* !!this.names[name]
hasRoute(this, name) == name \in DOMAIN this.names \/ name \in ObjectPrototypeKeys

noRouteMessage(name) == <<"There is no route named ">> \o name

\* handlersFor: the copy of route.handlers; Error when the lookup is falsy;
\* TypeError when it yields an inherited property, which has no handlers.
handlersFor(this, name) ==
  IF ~ hasRoute(this, name)
    THEN [op |-> "handlersFor", name |-> name, outcome |-> "throws", error |-> "Error",
          message |-> noRouteMessage(name), handlers |-> <<>>]
  ELSE IF name \notin DOMAIN this.names
    THEN [op |-> "handlersFor", name |-> name, outcome |-> "throws", error |-> "TypeError",
          message |-> <<>>, handlers |-> <<>>]
  ELSE [op |-> "handlersFor", name |-> name, outcome |-> "result", error |-> "",
        message |-> <<>>,
        handlers |-> [i \in 1..Len(this.names[name].handlers) |-> this.names[name].handlers[i]]]

\* ------------------------------------------------------------------------
\* generateQueryString

\* The UTF-16 code units Array.prototype.sort compares the keys by.
charCode == [c \in {"a", "b", "k", "[", "]"} |->
               CASE c = "a" -> 97 [] c = "b" -> 98 [] c = "k" -> 107
                 [] c = "[" -> 91 [] c = "]" -> 93]

RECURSIVE stringBefore(_, _)
stringBefore(a, b) ==
  IF b = <<>> THEN FALSE
  ELSE IF a = <<>> THEN TRUE
  ELSE IF Head(a) # Head(b) THEN charCode[Head(a)] < charCode[Head(b)]
  ELSE stringBefore(Tail(a), Tail(b))

\* A sort of the keys in descending order.
RECURSIVE sortKeysDescending(_)
sortKeysDescending(keys) ==
  IF keys = {} THEN <<>>
  ELSE sortKeysDescending(keys \ {CHOOSE k \in keys :
                                    \A other \in keys \ {k} : stringBefore(k, other)})
         \o <<CHOOSE k \in keys : \A other \in keys \ {k} : stringBefore(k, other)>>

RECURSIVE sortKeys(_)
sortKeys(keys) ==
  IF keys = {} THEN <<>>
  ELSE LET first == CHOOSE k \in keys : \A other \in keys \ {k} : stringBefore(k, other)
       IN <<first>> \o sortKeys(keys \ {first})

RECURSIVE arrayPairs(_, _)
arrayPairs(key, items) ==
  IF items = <<>> THEN <<>>
  ELSE <<key \o <<"[", "]", "=">> \o encodeURIComponent(Head(items))>>
         \o arrayPairs(key, Tail(items))

RECURSIVE queryPairs(_, _)
queryPairs(params, keys) ==
  IF keys = <<>> THEN <<>>
  ELSE LET key == Head(keys)
           value == params[key]
       IN (IF value.null THEN <<>>
           ELSE IF value.array THEN arrayPairs(key, value.items)
           ELSE <<encodeURIComponent(key) \o <<"=">> \o encodeURIComponent(value.value)>>)
            \o queryPairs(params, Tail(keys))

RECURSIVE joinWith(_, _)
joinWith(ss, sep) ==
  IF Len(ss) = 1 THEN ss[1] ELSE ss[1] \o sep \o joinWith(Tail(ss), sep)

joinPairs(pairs) == IF Len(pairs) = 0 THEN <<>> ELSE <<"?">> \o joinWith(pairs, <<"&">>)

generateQueryString(params) == joinPairs(queryPairs(params, sortKeys(DOMAIN params)))

\* ------------------------------------------------------------------------
\* RouteRecognizer.prototype.generate.  params is [given, values, queryParams]:
\* given is FALSE when the caller passes none, values maps the names it holds
\* to strings, queryParams is None or Some(mapping).

\* A DynamicSegment.prototype.generate that never encodes.
segmentGenerateRaw(segment, params, encodeAndDecode) ==
  CASE segment.type = "static" -> segment.string
    [] segment.type \in {"dynamic", "star"} ->
         IF ~ params.given THEN TypeError
         ELSE IF segment.name \in DOMAIN params.values THEN params.values[segment.name]
         ELSE undefinedString
    [] segment.type = "epsilon" -> <<>>

\* Segment.prototype.generate: the text, or TypeError (the read of a property
\* of undefined).
segmentGenerate(segment, params, encodeAndDecode) ==
  LET value == IF segment.name \in DOMAIN params.values
                 THEN params.values[segment.name] ELSE undefinedString
  IN CASE segment.type = "static" -> segment.string
       [] segment.type = "dynamic" ->
            IF ~ params.given THEN TypeError
            ELSE IF encodeAndDecode THEN encodeURIComponent(value) ELSE value
       [] segment.type = "star" -> IF ~ params.given THEN TypeError ELSE value
       [] segment.type = "epsilon" -> <<>>

\* output += "/"; output += segment.generate(params), TypeError passing through.
generateSegment(text, rest) ==
  IF text = TypeError \/ rest = TypeError THEN TypeError ELSE <<"/">> \o text \o rest

\* A loop without the `continue` of line 697.
RECURSIVE generateEverySegment(_, _, _)
generateEverySegment(segments, params, encodeAndDecode) ==
  IF segments = <<>> THEN <<>>
  ELSE generateSegment(segmentGenerate(Head(segments), params, encodeAndDecode),
                       generateEverySegment(Tail(segments), params, encodeAndDecode))

\* The loop of lines 693-700.
RECURSIVE generateSegments(_, _, _)
generateSegments(segments, params, encodeAndDecode) ==
  IF segments = <<>> THEN <<>>
  ELSE IF Head(segments).type = "epsilon"
    THEN generateSegments(Tail(segments), params, encodeAndDecode)
  ELSE generateSegment(segmentGenerate(Head(segments), params, encodeAndDecode),
                       generateSegments(Tail(segments), params, encodeAndDecode))

generated(name, params, outcome, error, message, output) ==
  [op |-> "generate", name |-> name, params |-> params, outcome |-> outcome,
   error |-> error, message |-> message, output |-> output]

\* Lines 702-708, `output` being what the loop left.
generateOutput(name, params, output) ==
  IF output = TypeError THEN generated(name, params, "throws", "TypeError", <<>>, <<>>)
  ELSE generated(name, params, "result", "", <<>>,
                 (IF output = <<>> \/ output[1] # "/" THEN <<"/">> \o output ELSE output)
                   \o (IF params.given /\ params.queryParams # None
                         THEN generateQueryString(params.queryParams[1]) ELSE <<>>))

generate(this, name, params, encodeAndDecode) ==
  IF ~ hasRoute(this, name)
    THEN generated(name, params, "throws", "Error", noRouteMessage(name), <<>>)
  ELSE IF name \notin DOMAIN this.names
    THEN generated(name, params, "throws", "TypeError", <<>>, <<>>)
  ELSE generateOutput(name, params,
                      generateSegments(this.names[name].segments, params, encodeAndDecode))

\* ------------------------------------------------------------------------
\* The inputs

MaxAdds == 2
MaxPathSegments == 3

route(path, handler) == [path |-> path, handler |-> handler]

\* The calls of add a caller makes, as [routes, as]: as is options.as, None
\* without it.  /p/n; /p/:i; /f/*r; /; the nested batch /p then /:i; /:x/:y;
\* /:x//:y (an empty segment between two dynamic ones); /a$; the nested batch
\* /f/:a then /:b.
registration(routes, as) == [routes |-> routes, as |-> as]

Registrations ==
  {registration(<<route(<<"/", "p", "/", "n">>, "new")>>, None),
   registration(<<route(<<"/", "p", "/", ":", "i">>, "show")>>, Some(<<"r">>)),
   registration(<<route(<<"/", "f", "/", "*", "r">>, "files")>>, Some(<<"r">>)),
   registration(<<route(<<"/">>, "index")>>, Some(<<"r">>)),
   registration(<<route(<<"/", "p">>, "posts"), route(<<"/", ":", "i">>, "post")>>,
                Some(<<"r">>)),
   registration(<<route(<<"/", ":", "x", "/", ":", "y">>, "any")>>, None),
   registration(<<route(<<"/", ":", "x", "/", "/", ":", "y">>, "gap")>>, Some(<<"r">>)),
   registration(<<route(<<"/", "a", "$">>, "cash")>>, None),
   registration(<<route(<<"/", "f", "/", ":", "a">>, "dir"), route(<<"/", ":", "b">>, "file")>>,
                None)}

\* The names the readers ask for: the registered one, one never registered,
\* and one every object inherits.
AskedNames == {<<"r">>, <<"x">>, <<"t", "o", "S", "t", "r", "i", "n", "g">>}

FirstSegments == {<<"p">>, <<"f">>, <<"a", "$">>}
RestSegments == {<<"n">>, <<"%", "2", "4">>}

\* The paths of n segments, without the leading '/'.
RECURSIVE pathsOf(_)
pathsOf(n) ==
  IF n = 0 THEN {<<>>}
  ELSE IF n = 1 THEN FirstSegments
  ELSE {p \o <<"/">> \o seg : p \in pathsOf(n - 1), seg \in RestSegments}

\* The paths a caller asks recognize for: with and without the trailing '/',
\* the empty path, a malformed escape, a query and a fragment.
Paths ==
  LET bare == UNION {pathsOf(n) : n \in 0..MaxPathSegments}
  IN {<<>>} \cup {<<"/">> \o p : p \in bare}
       \cup {<<"/">> \o p \o <<"/">> : p \in bare}
       \cup {<<"/", "p", "/", "%">>, <<"/", "p", "?", "k", "=", "a">>,
             <<"/", "p", "#", "k">>}

\* The values a caller gives a parameter.
Values ==
  {<<"n">>, <<"n", "/", "n">>, <<"n", "/">>, <<"%", "2", "4", "n", "/">>, <<"n", "?", "n">>,
   <<"$">>, <<"%">>, <<>>}

\* ------------------------------------------------------------------------
\* The state: the engine (its arena of states and its named routes), the
\* ENCODE_AND_DECODE_PATH_SEGMENTS switch, and the call that returned last with
\* what it returned (op "none" once the caller has taken the result).  Two
\* history variables record what the caller did: history, the calls of add so
\* far, and owner, for every accepting state the call of add that marked it
\* last.

VARIABLES states, names, encodeAndDecode, last, history, owner

vars == <<states, names, encodeAndDecode, last, history, owner>>

engine == [states |-> states, names |-> names]

rootState ==
  State([invalidChars |-> None, repeat |-> FALSE, validChars |-> None])

Idle == [op |-> "none"]

Init ==
  /\ states = <<rootState>>
  /\ names = <<>>
  /\ encodeAndDecode \in BOOLEAN
  /\ last = Idle
  /\ history = <<>>
  /\ owner = <<>>

Added(routes, as, after) ==
  /\ states' = after.states
  /\ names' = after.names
  /\ owner' = setKey(owner, after.currentState, registration(routes, as))

Add(routes, as) ==
  /\ last.op = "none"
  /\ Len(history) < MaxAdds
  /\ Added(routes, as, add(engine, routes, as))
  /\ history' = Append(history, registration(routes, as))
  /\ last' = [op |-> "add", routes |-> routes, as |-> as]
  /\ UNCHANGED encodeAndDecode

\* The call of recognize returns, `locals` being its locals after the walk;
\* from is the call of generate whose output the path is, if any.
Recognized(input, locals, from) ==
  \E sorted \in sortSolutions(states, locals.solutions) :
    last' = recognize(engine, locals, input, encodeAndDecode, sorted) @@ [from |-> from]

\* A recognize that keeps what it found in the automaton.
RecognizeCaching(input) ==
  /\ last.op = "none"
  /\ Recognized(input, recognizeLocals(engine, input, encodeAndDecode), None)
  /\ states' = Append(states, rootState)
  /\ UNCHANGED <<names, encodeAndDecode, history, owner>>

Recognize(input) ==
  /\ last.op = "none"
  /\ Recognized(input, recognizeLocals(engine, input, encodeAndDecode), None)
  /\ UNCHANGED <<states, names, encodeAndDecode, history, owner>>

Generate(name, params) ==
  /\ last.op = "none"
  /\ last' = generate(engine, name, params, encodeAndDecode)
  /\ UNCHANGED <<states, names, encodeAndDecode, history, owner>>

\* The caller hands the path generate returned to recognize.
RecognizeGenerated ==
  /\ last.op = "generate"
  /\ last.outcome = "result"
  /\ Recognized(last.output, recognizeLocals(engine, last.output, encodeAndDecode), Some(last))
  /\ UNCHANGED <<states, names, encodeAndDecode, history, owner>>

HandlersFor(name) ==
  /\ last.op = "none"
  /\ last' = handlersFor(engine, name)
  /\ UNCHANGED <<states, names, encodeAndDecode, history, owner>>

HasRoute(name) ==
  /\ last.op = "none"
  /\ last' = [op |-> "hasRoute", name |-> name, result |-> hasRoute(engine, name)]
  /\ UNCHANGED <<states, names, encodeAndDecode, history, owner>>

\* The caller takes the result.
Return ==
  /\ last.op # "none"
  /\ last' = Idle
  /\ UNCHANGED <<states, names, encodeAndDecode, history, owner>>

\* The parameter objects a caller passes to generate for the route `name`:
\* none, or one that gives every parameter of the route a value.
ParamsFor(name) ==
  LET declared == IF name \in DOMAIN names
                    THEN {names[name].segments[i].name :
                            i \in {j \in 1..Len(names[name].segments) :
                                     names[name].segments[j].type \in {"dynamic", "star"}}}
                    ELSE {}
  IN {[given |-> FALSE, values |-> <<>>, queryParams |-> None]}
       \cup {[given |-> TRUE, values |-> v, queryParams |-> None] :
               v \in [declared -> Values]}

Next ==
  \/ \E r \in Registrations : Add(r.routes, r.as)
  \/ \E input \in Paths : Recognize(input)
  \/ \E name \in AskedNames : \E params \in ParamsFor(name) : Generate(name, params)
  \/ RecognizeGenerated
  \/ \E name \in AskedNames : HandlersFor(name)
  \/ \E name \in AskedNames : HasRoute(name)
  \/ Return

Spec == Init /\ [][Next]_vars

\* ------------------------------------------------------------------------
\* The query string on its own: parseQueryString and generateQueryString read
\* nothing of the engine, so their callers are modelled apart from the calls of
\* add: QuerySpec is an engine as constructed whose caller parses query strings
\* and generates them.

MaxPairs == 2

\* The pairs a query string is made of: a=1, a=, a, a[]=1, a[]=2, a[], b=1=2,
\* b=% (a malformed escape) and toString[]=1 (a key every object inherits).
QueryPairTexts ==
  {<<"a", "=", "1">>, <<"a", "=">>, <<"a">>,
   <<"a", "[", "]", "=", "1">>, <<"a", "[", "]", "=", "2">>, <<"a", "[", "]">>,
   <<"b", "=", "1", "=", "2">>, <<"b", "=", "%">>,
   <<"t", "o", "S", "t", "r", "i", "n", "g", "[", "]", "=", "1">>}

\* The query strings of n pairs.
RECURSIVE queryStringsOf(_)
queryStringsOf(n) ==
  IF n = 1 THEN QueryPairTexts
  ELSE {q \o <<"&">> \o pair : q \in queryStringsOf(n - 1), pair \in QueryPairTexts}

QueryStrings == {<<>>} \cup UNION {queryStringsOf(n) : n \in 1..MaxPairs}

\* The mappings a caller hands to generateQueryString.
QueryKeys == {<<"a">>, <<"a", "b">>, <<"b">>}
QueryValues ==
  {scalarValue(<<"1">>), scalarValue(<<"2">>), scalarValue(<<"$">>), nullValue, arrayValue(<<>>),
   arrayValue(<<<<"2">>, <<"1">>>>)}
QueryMappings == UNION {[keys -> QueryValues] : keys \in SUBSET QueryKeys}

ParseQueryString(queryString) ==
  /\ last.op = "none"
  /\ last' = parseQueryString(queryString)
               @@ [op |-> "parseQueryString", queryString |-> queryString]
  /\ UNCHANGED <<states, names, encodeAndDecode, history, owner>>

GenerateQueryString(params) ==
  /\ last.op = "none"
  /\ last' = [op |-> "generateQueryString", params |-> params,
              output |-> generateQueryString(params)]
  /\ UNCHANGED <<states, names, encodeAndDecode, history, owner>>

QueryNext ==
  \/ \E queryString \in QueryStrings : ParseQueryString(queryString)
  \/ \E params \in QueryMappings : GenerateQueryString(params)
  \/ Return

QuerySpec == Init /\ [][QueryNext]_vars

\* ------------------------------------------------------------------------
\* The walk on its own: the loop of lines 808-811 taken one character at a
\* time, so that the frontier after every prefix of the path is a state.
\* WalkSpec is an engine whose caller adds routes and walks paths; the path is
\* the working path, normalized and without its trailing '/'.

\* /*a/*b; /f/*r; /:x/:y; /p/n.
WalkRegistrations ==
  {registration(<<route(<<"/", "*", "a", "/", "*", "b">>, "deep")>>, None),
   registration(<<route(<<"/", "f", "/", "*", "r">>, "files")>>, None),
   registration(<<route(<<"/", ":", "x", "/", ":", "y">>, "any")>>, None),
   registration(<<route(<<"/", "p", "/", "n">>, "new")>>, None)}

WalkPaths == {<<"/">> \o p : p \in UNION {pathsOf(n) : n \in 0..MaxPathSegments}}

\* Line 774: states = [ this.rootState ].
BeginWalk(path) ==
  /\ last.op = "none"
  /\ last' = [op |-> "walk", path |-> path, i |-> 1, frontier |-> <<1>>]
  /\ UNCHANGED <<states, names, encodeAndDecode, history, owner>>

\* One turn of the loop of lines 808-811; the loop breaks on an empty frontier.
WalkChar ==
  /\ last.op = "walk"
  /\ last.i <= Len(last.path)
  /\ last.frontier # <<>>
  /\ last' = [last EXCEPT !.i = @ + 1,
                          !.frontier = recognizeChar(states, last.frontier, last.path[last.i])]
  /\ UNCHANGED <<states, names, encodeAndDecode, history, owner>>

WalkNext ==
  \/ \E r \in WalkRegistrations : Add(r.routes, r.as)
  \/ \E path \in WalkPaths : BeginWalk(path)
  \/ WalkChar
  \/ Return

WalkSpec == Init /\ [][WalkNext]_vars

\* ------------------------------------------------------------------------
\* Properties

\* The registrations the examples are about.
newRoute == registration(<<route(<<"/", "p", "/", "n">>, "new")>>, None)
showRoute == registration(<<route(<<"/", "p", "/", ":", "i">>, "show")>>, Some(<<"r">>))
filesRoute == registration(<<route(<<"/", "f", "/", "*", "r">>, "files")>>, Some(<<"r">>))

Registered == {history[i] : i \in DOMAIN history}

\* The accepting states of the final frontier of the call of recognize.
Accepting == {last.states[i] : i \in {j \in DOMAIN last.states :
                                        states[last.states[j]].handlers # None}}

Chosen == last.op = "recognize" /\ last.outcome = "result"

\* C1: a result of recognize is built from an accepting state of the final
\* frontier whose specificity is at least that of every accepting state of the
\* frontier, and carries that state's handlers; with only /p/n and /p/:i
\* registered, recognize("/p/n") returns the handler of /p/n.
C1_MostSpecific ==
  /\ Chosen =>
       /\ last.state \in Accepting
       /\ \A s \in Accepting : valOf(states, s)[1] <= valOf(states, last.state)[1]
       /\ [i \in DOMAIN last.entries |-> last.entries[i].handler]
            = [i \in DOMAIN states[last.state].handlers[1] |->
                 states[last.state].handlers[1][i].handler]
  /\ (/\ last.op = "recognize"
      /\ last.input = <<"/", "p", "/", "n">>
      /\ Registered = {newRoute, showRoute}) =>
       /\ last.outcome = "result"
       /\ [i \in DOMAIN last.entries |-> last.entries[i].handler] = <<"new">>

C1_Witness ==
  /\ Chosen
  /\ last.input = <<"/", "p", "/", "n">>
  /\ Registered = {newRoute, showRoute}
  /\ \E s \in Accepting : valOf(states, s)[1] < valOf(states, last.state)[1]

\* C2: recognize returns a result only when the extraction pattern of the
\* chosen state matched the path findHandler was given, so that the captures
\* it read are those of a match.
C2_Exactness == Chosen => last.captures # None

\* The call of add that registered `name` last, whose segments generate replays.
registeredAs(name) ==
  history[CHOOSE i \in DOMAIN history :
            /\ history[i].as = Some(name)
            /\ \A j \in DOMAIN history : j > i => history[j].as # Some(name)]

\* The parameters of a result: those of all its entries.
parametersOf(entries) ==
  [n \in UNION {DOMAIN entries[i].params : i \in DOMAIN entries} |->
     entries[CHOOSE i \in DOMAIN entries : n \in DOMAIN entries[i].params].params[n]]

\* recognize was called with the path a call of generate returned.
RoundTrip == last.op = "recognize" /\ last.from # None

\* The values generate was given, and the values given to Star segments.
givenValues == last.from[1].params.values

starValues ==
  {givenValues[names[last.from[1].name].segments[i].name] :
     i \in {j \in DOMAIN names[last.from[1].name].segments :
              names[last.from[1].name].segments[j].type = "star"}}

plainText(reg) ==
  \A i \in DOMAIN reg.routes :
    \A c \in {"?", "#", "%"} : indexOf(reg.routes[i].path, c) = 0

firstSegment(reg) == parse(reg.routes[1].path).results[1].type
segmentCount(reg) == Len(parse(reg.routes[1].path).results)

\* C4 as stated: when a Static-first and a Dynamic- or Star-first pattern both
\* accept the path, recognize does not resolve to the latter.
C4_StaticFirstAlways ==
  last.op = "recognize" =>
    \A s, t \in Accepting :
      (firstSegment(owner[s]) = "static" /\ firstSegment(owner[t]) \in {"dynamic", "star"})
        => last.state # t

\* C4: of two accepting states marked by single-route batches of the same
\* number of segments, the Static-first one has the greater specificity and
\* recognize does not resolve to the Dynamic- or Star-first one.
C4_StaticFirstSameLength ==
  last.op = "recognize" =>
    \A s, t \in Accepting :
      (/\ firstSegment(owner[s]) = "static"
       /\ firstSegment(owner[t]) \in {"dynamic", "star"}
       /\ Len(owner[s].routes) = 1
       /\ Len(owner[t].routes) = 1
       /\ segmentCount(owner[s]) = segmentCount(owner[t]))
        => valOf(states, s)[1] > valOf(states, t)[1] /\ last.state # t

C4_Witness ==
  /\ Chosen
  /\ firstSegment(owner[last.state]) = "static"
  /\ Len(owner[last.state].routes) = 1
  /\ \E t \in Accepting :
       /\ firstSegment(owner[t]) = "dynamic"
       /\ Len(owner[t].routes) = 1
       /\ segmentCount(owner[t]) = segmentCount(owner[last.state])

endsWithSlash(string) == string # <<>> /\ string[Len(string)] = "/"

\* The last handler of the chosen state that has names; the last of its names
\* is the one the last capture of the extraction pattern is bound to.
lastNamed(handlers) ==
  CHOOSE i \in DOMAIN handlers :
    /\ handlers[i].names # <<>>
    /\ \A j \in DOMAIN handlers : j > i => handlers[j].names = <<>>

lastValue(entries, handlers, i) == entries[i].params[handlers[i].names[Len(handlers[i].names)]]

\* C5: when the trailing '/' of the path was dropped and the extraction pattern
\* of the chosen state ends in a Star capture, the path given to findHandler
\* ends in '/' again and so does the value of the last Star parameter of a
\* result; with /f/*r registered, recognize("/f/n/n/") yields r = "n/n/".
C5_TrailingSlashStar ==
  /\ (/\ last.op = "recognize"
      /\ last.isSlashDropped
      /\ last.state \in Accepting
      /\ endsWithStar(states[last.state].regex[1])) =>
       /\ endsWithSlash(last.originalPath)
       /\ last.outcome = "result" =>
            endsWithSlash(lastValue(last.entries, states[last.state].handlers[1],
                                    lastNamed(states[last.state].handlers[1])))
  /\ (/\ last.op = "recognize"
      /\ last.input = <<"/", "f", "/", "n", "/", "n", "/">>
      /\ filesRoute \in Registered) =>
       /\ last.outcome = "result"
       /\ parametersOf(last.entries) = [n \in {<<"r">>} |-> <<"n", "/", "n", "/">>]

C5_Witness ==
  /\ Chosen
  /\ last.isSlashDropped
  /\ owner[last.state] = filesRoute
  /\ last.input = <<"/", "f", "/", "n", "/", "n", "/">>
  /\ last.originalPath = last.input

\* C6: a walk that ends with no accepting state in the final frontier (the
\* frontier emptied, or holds only states that accept nothing) makes recognize
\* return undefined, without an exception.
C6_NotFound ==
  (last.op = "recognize" /\ last.walked /\ Accepting = {}) =>
    last.outcome = "absent" /\ last.error = ""

C6_Witness ==
  /\ last.op = "recognize"
  /\ last.walked
  /\ last.states # <<>>
  /\ Accepting = {}
  /\ last.outcome = "absent"

\* C7: for a name no call of add was given as options.as, generate and
\* handlersFor throw the Error whose message carries the name, and hasRoute
\* returns false.
C7_UnknownName ==
  (/\ last.op \in {"generate", "handlersFor", "hasRoute"}
   /\ \A i \in DOMAIN history : history[i].as # Some(last.name)) =>
    IF last.op = "hasRoute" THEN last.result = FALSE
    ELSE /\ last.outcome = "throws"
         /\ last.error = "Error"
         /\ last.message = noRouteMessage(last.name)

\* C8: a call of recognize, generate, handlersFor or hasRoute, whatever it
\* returns or throws, leaves the states of the automaton and the named routes
\* as they were.
C8_OnlyAddMutates ==
  [][last'.op \in {"recognize", "generate", "handlersFor", "hasRoute"}
       => states' = states /\ names' = names]_vars

C8_Witness ==
  /\ last.op = "recognize"
  /\ last.outcome = "throws"
  /\ Len(states) > 1
  /\ DOMAIN names # {}

\* The routes of the batch that marked the chosen state, with the names and
\* decode flags each declares and the number of captures the routes before it
\* consume.
batch == owner[last.state].routes
namesOf(i) == parse(batch[i].path).names
capturesBefore(i) == Len(concat([j \in 1..(i - 1) |-> namesOf(j)]))

\* What findHandler is to bind the k-th name of route i to.
captured(i, k) ==
  IF encodeAndDecode /\ parse(batch[i].path).shouldDecodes[k]
    THEN decodeURIComponent(last.captures[1][capturesBefore(i) + k + 1])
    ELSE last.captures[1][capturesBefore(i) + k + 1]

\* C9: a result has one entry per route of the batch that marked the chosen
\* state, in order; entry i has the handler of route i, binds each name of
\* route i to the capture at the name's position counted over the whole batch,
\* and is dynamic exactly when route i declares a name.
C9_BatchEntries ==
  Chosen =>
    /\ Len(last.entries) = Len(batch)
    /\ \A i \in DOMAIN batch :
         /\ last.entries[i].handler = batch[i].handler
         /\ last.entries[i].isDynamic = (namesOf(i) # <<>>)
         /\ DOMAIN last.entries[i].params = {namesOf(i)[k] : k \in DOMAIN namesOf(i)}
         /\ \A k \in DOMAIN namesOf(i) :
              (\A l \in DOMAIN namesOf(i) : l > k => namesOf(i)[l] # namesOf(i)[k])
                => last.entries[i].params[namesOf(i)[k]] = captured(i, k)

C9_Witness ==
  /\ Chosen
  /\ Len(batch) = 2
  /\ last.entries[1].params = [n \in {<<"a">>} |-> <<"$">>]
  /\ last.entries[2].params = [n \in {<<"b">>} |-> <<"n">>]
  /\ last.entries[1].isDynamic

\* The segments generate is to replay for the name asked: those of every route
\* of the batch registered under it last, without the Epsilon ones.
replayed == registeredAs(last.name).routes
shown ==
  SelectSeq(concat([i \in DOMAIN replayed |-> parse(replayed[i].path).results]),
            LAMBDA segment : segment.type # "epsilon")

rendering(segment) ==
  CASE segment.type = "static" -> segment.string
    [] segment.type = "dynamic" ->
         IF encodeAndDecode THEN encodeURIComponent(last.params.values[segment.name])
         ELSE last.params.values[segment.name]
    [] segment.type = "star" -> last.params.values[segment.name]

\* C10: for a registered name and params that hold its parameters, generate
\* returns '/' and the rendering of every segment that is not Epsilon, in the
\* order of the batch; the output starts with '/', and is "/" when no segment
\* is left.
C10_Replay ==
  (/\ last.op = "generate"
   /\ \E i \in DOMAIN history : history[i].as = Some(last.name)
   /\ last.params.given \/ \A i \in DOMAIN shown : shown[i].type = "static") =>
    /\ last.outcome = "result"
    /\ last.output[1] = "/"
    /\ last.output = IF shown = <<>> THEN <<"/">>
                     ELSE concat([i \in DOMAIN shown |-> <<"/">> \o rendering(shown[i])])

C10_Witness ==
  /\ last.op = "generate"
  /\ last.outcome = "result"
  /\ encodeAndDecode
  /\ Len(replayed[1].path) = 7
  /\ last.output = <<"/", "n", "%", "2", "F", "n", "/", "n">>

\* The pairs of the query string parsed, and of one pair the key (decoded), the
\* text after its first '=' and the value that text stands for.
pairsParsed == split(last.queryString, "&")
hasEquals(text) == indexOf(text, "=") # 0
keyOf(text) ==
  decodeQueryParamPart(IF hasEquals(text) THEN SubSeq(text, 1, indexOf(text, "=") - 1)
                       ELSE text)
afterEquals(text) == SubSeq(text, indexOf(text, "=") + 1, Len(text))
isArrayKey(key) == Len(key) > 2 /\ SubSeq(key, Len(key) - 1, Len(key)) = <<"[", "]">>
stripped(key) == SubSeq(key, 1, Len(key) - 2)

\* The positions of the pairs with an '=' whose key is name[].
arrayPairsOf(name) ==
  {i \in DOMAIN pairsParsed :
     /\ hasEquals(pairsParsed[i])
     /\ isArrayKey(keyOf(pairsParsed[i]))
     /\ stripped(keyOf(pairsParsed[i])) = name}

arrayNames ==
  {stripped(keyOf(pairsParsed[i])) :
     i \in {j \in DOMAIN pairsParsed :
              hasEquals(pairsParsed[j]) /\ isArrayKey(keyOf(pairsParsed[j]))}}

\* The values of the pairs at `positions`, in the order of the query string.
RECURSIVE valuesAt(_)
valuesAt(positions) ==
  IF positions = {} THEN <<>>
  ELSE valuesAt(positions \ {CHOOSE i \in positions : \A j \in positions : j <= i})
         \o <<decodeQueryParamPart(
                afterEquals(pairsParsed[CHOOSE i \in positions : \A j \in positions : j <= i]))>>

\* C11: parseQueryString never throws, and under every name that a pair
\* name[]=value of the query string carries it stores the array of the values
\* of those pairs, in their order, whatever other pairs the string holds.
C11_ArrayKeys ==
  last.op = "parseQueryString" =>
    /\ ~ last.threw
    /\ \A name \in arrayNames :
         /\ name \in DOMAIN last.queryParams
         /\ last.queryParams[name].array
         /\ last.queryParams[name].items = valuesAt(arrayPairsOf(name))

\* The name a pair writes to: the key, stripped of "[]" when the pair is an
\* array pair.
nameWritten(text) ==
  IF hasEquals(text) /\ isArrayKey(keyOf(text)) THEN stripped(keyOf(text)) ELSE keyOf(text)

\* The pair at position i is a scalar pair and no later pair writes its name.
lastScalar(i) ==
  /\ ~ (hasEquals(pairsParsed[i]) /\ isArrayKey(keyOf(pairsParsed[i])))
  /\ \A j \in DOMAIN pairsParsed :
       j > i => nameWritten(pairsParsed[j]) # keyOf(pairsParsed[i])

\* C12: a scalar pair is split on its first '=': parseQueryString stores under
\* the text before it (decoded) the text after it (decoded), and "true" for a
\* pair without '='.
C12_ScalarPairs ==
  (last.op = "parseQueryString" /\ ~ last.threw) =>
    \A i \in DOMAIN pairsParsed :
      lastScalar(i) =>
        /\ keyOf(pairsParsed[i]) \in DOMAIN last.queryParams
        /\ last.queryParams[keyOf(pairsParsed[i])]
             = scalarValue(IF hasEquals(pairsParsed[i])
                             THEN decodeQueryParamPart(afterEquals(pairsParsed[i]))
                             ELSE <<"t", "r", "u", "e">>)

\* The pairs generateQueryString is to emit for one key, as <<key text, value>>.
pairsFor(key) ==
  IF last.params[key].null THEN <<>>
  ELSE IF last.params[key].array
    THEN [i \in DOMAIN last.params[key].items |->
            <<key \o <<"[", "]">>, last.params[key].items[i]>>]
  ELSE <<<<key, last.params[key].value>>>>

\* The keys of the mapping in ascending order.
ascending ==
  CHOOSE keys \in [1..Cardinality(DOMAIN last.params) -> DOMAIN last.params] :
    \A i, j \in DOMAIN keys : i < j => stringBefore(keys[i], keys[j])

pairsExpected == concat([i \in DOMAIN ascending |-> pairsFor(ascending[i])])

\* The pairs of the output, each decoded into <<key text, value>>.
pairsEmitted ==
  [i \in DOMAIN split(Tail(last.output), "&") |->
     <<decodeURIComponent(split(split(Tail(last.output), "&")[i], "=")[1]),
       decodeURIComponent(afterEquals(split(Tail(last.output), "&")[i]))>>]

\* C13: generateQueryString emits, for the keys in ascending order, nothing for
\* a null value, key[]=item for every item of an array in the array's order
\* and key=value for a scalar, joined by '&' after a '?'; it returns the empty
\* string when no pair is emitted; {b: "2", a: "1"} gives "?a=1&b=2".
C13_QueryGeneration ==
  /\ last.op = "generateQueryString" =>
       IF pairsExpected = <<>> THEN last.output = <<>>
       ELSE /\ last.output[1] = "?"
            /\ pairsEmitted = pairsExpected
  /\ (/\ last.op = "generateQueryString"
      /\ DOMAIN last.params = {<<"a">>, <<"b">>}
      /\ last.params[<<"b">>] = scalarValue(<<"2">>)
      /\ last.params[<<"a">>] = scalarValue(<<"1">>)) =>
       last.output = <<"?", "a", "=", "1", "&", "b", "=", "2">>

C13_Witness ==
  /\ last.op = "generateQueryString"
  /\ DOMAIN last.params = QueryKeys
  /\ last.params[<<"a", "b">>].null
  /\ last.output = <<"?", "a", "[", "]", "=", "2", "&", "a", "[", "]", "=", "1", "&",
                     "b", "=", "%", "2", "4">>

\* C14: once add has registered a name, no later step changes the segments
\* and handlers recorded under it.
C14_WriteOnce ==
  [][\A name \in DOMAIN names : name \in DOMAIN names' /\ names'[name] = names[name]]_vars

\* The digit of a kind of segment and the integer a pattern's kinds spell,
\* left to right.
digitOf(type) ==
  CASE type = "star" -> 1 [] type = "epsilon" -> 2 [] type = "dynamic" -> 3
    [] type = "static" -> 4

RECURSIVE scoreOf(_)
scoreOf(segments) ==
  IF segments = <<>> THEN 0
  ELSE 10 * scoreOf(SubSeq(segments, 1, Len(segments) - 1))
         + digitOf(segments[Len(segments)].type)

lastRoute(reg) == reg.routes[Len(reg.routes)]

\* C15: the specificity stored on an accepting state is the integer spelled by
\* the digits of the segments of the last route of the batch that marked it;
\* the earlier routes of the batch add nothing to it.
C15_LastRouteScore ==
  \A s \in DOMAIN owner :
    states[s].specificity = Some([val |-> Some(scoreOf(parse(lastRoute(owner[s]).path).results))])

C15_Witness ==
  \E s \in DOMAIN owner :
    /\ Len(owner[s].routes) = 2
    /\ firstSegment(owner[s]) = "static"
    /\ valOf(states, s) = Some(3)

\* No state of the arena has two children of equal CharacterSpec.
noTwinChildren(arena) ==
  \A s \in DOMAIN arena :
    \A i, j \in DOMAIN arena[s].nextStates :
      i # j =>
        \/ arena[arena[s].nextStates[i]].charSpec.validChars
             # arena[arena[s].nextStates[j]].charSpec.validChars
        \/ arena[arena[s].nextStates[i]].charSpec.invalidChars
             # arena[arena[s].nextStates[j]].charSpec.invalidChars

\* What the segments of a batch contribute to the automaton: the kind and the
\* text of every segment of every route that is not Epsilon.
contributed(reg) ==
  [i \in DOMAIN SelectSeq(concat([r \in DOMAIN reg.routes |-> parse(reg.routes[r].path).results]),
                          LAMBDA segment : segment.type # "epsilon") |->
     [type |-> SelectSeq(concat([r \in DOMAIN reg.routes |->
                                   parse(reg.routes[r].path).results]),
                         LAMBDA segment : segment.type # "epsilon")[i].type,
      string |-> SelectSeq(concat([r \in DOMAIN reg.routes |->
                                     parse(reg.routes[r].path).results]),
                           LAMBDA segment : segment.type # "epsilon")[i].string]]

\* C16: after every step no state has two children of equal CharacterSpec, and
\* an add of a batch whose segments are those of a batch added before creates
\* no state and no edge.
C16_PrefixSharing ==
  [][/\ noTwinChildren(states')
     /\ (/\ last'.op = "add"
         /\ \E i \in DOMAIN history :
              contributed(history[i]) = contributed(history'[Len(history')]))
          => /\ Len(states') = Len(states)
             /\ \A s \in DOMAIN states : states'[s].nextStates = states[s].nextStates]_vars

C16_Witness ==
  /\ last.op = "add"
  /\ Len(history) = 2
  /\ history[1] # history[2]
  /\ contributed(history[1]) = contributed(history[2])
  /\ \E s \in DOMAIN states : Len(states[s].nextStates) = 2

\* The edges that lead to state c from another state, as <<parent, position>>.
parentEdges(c) ==
  {e \in UNION {{<<p, i>> : i \in DOMAIN states[p].nextStates} : p \in DOMAIN states \ {c}} :
     states[e[1]].nextStates[e[2]] = c}

\* C17: an edge from a state to itself belongs to a state whose CharacterSpec
\* repeats; every other edge leads to a state created after its source, so no
\* edge leads back to an ancestor; the root has no parent and every other
\* state has exactly one parent besides itself.
C17_TreeWithSelfLoops ==
  /\ \A s \in DOMAIN states :
       \A i \in DOMAIN states[s].nextStates :
         IF states[s].nextStates[i] = s THEN states[s].charSpec.repeat
         ELSE states[s].nextStates[i] > s
  /\ parentEdges(1) = {}
  /\ \A c \in DOMAIN states \ {1} : Cardinality(parentEdges(c)) = 1

C17_Witness ==
  /\ Len(history) = 2
  /\ \E s \in DOMAIN states :
       /\ states[s].charSpec.repeat
       /\ \E i, j \in DOMAIN states[s].nextStates :
            states[s].nextStates[i] = s /\ states[s].nextStates[j] > s
  /\ \E s \in DOMAIN states : ~ states[s].charSpec.repeat /\ Len(states[s].nextStates) = 2

\* The number of capture groups of a regex source: its '(' that no backslash
\* escapes.
RECURSIVE groupCount(_)
groupCount(source) ==
  IF source = <<>> THEN 0
  ELSE IF Head(source) = "\\" THEN groupCount(SubSeq(source, 3, Len(source)))
  ELSE (IF Head(source) = "(" THEN 1 ELSE 0) + groupCount(Tail(source))

\* C18: the extraction pattern of every accepting state has as many capture
\* groups as its handlers have names together.
C18_GroupsMatchNames ==
  \A s \in DOMAIN states :
    states[s].handlers # None =>
      /\ states[s].regex # None
      /\ groupCount(states[s].regex[1])
           = Len(concat([i \in DOMAIN states[s].handlers[1] |->
                           states[s].handlers[1][i].names]))

C18_Witness ==
  /\ Len(history) = 2
  /\ Len(history[1].routes) = 1
  /\ Len(history[2].routes) = 2
  /\ contributed(history[1]) = contributed(history[2])
  /\ \E s \in DOMAIN owner :
       /\ owner[s] = history[2]
       /\ groupCount(states[s].regex[1]) = 1

\* The calls of add so far whose batch has no segment that is not Epsilon.
rootBatches == {i \in DOMAIN history : contributed(history[i]) = <<>>}

\* The state one literal '/' away from the root, 0 when there is none.
slashState == get(states, 1, slashSpec)

\* C19: the root state is never accepting; once a batch without a non-Epsilon
\* segment has been added, the state one literal '/' away from the root is
\* accepting and carries the handlers of the last such batch, and
\* recognize("/") and recognize("") return these handlers.
C19_RootPattern ==
  /\ states[1].handlers = None
  /\ 1 \notin DOMAIN owner
  /\ rootBatches # {} =>
       /\ slashState # 0
       /\ slashState \in DOMAIN owner
       /\ owner[slashState] = history[CHOOSE i \in rootBatches : \A j \in rootBatches : j <= i]
       /\ [i \in DOMAIN states[slashState].handlers[1] |->
             states[slashState].handlers[1][i].handler]
            = [i \in DOMAIN owner[slashState].routes |-> owner[slashState].routes[i].handler]
       /\ (last.op = "recognize" /\ last.input \in {<<>>, <<"/">>}) =>
            /\ last.outcome = "result"
            /\ last.state = slashState
            /\ [i \in DOMAIN last.entries |-> last.entries[i].handler]
                 = [i \in DOMAIN owner[slashState].routes |->
                      owner[slashState].routes[i].handler]

C19_Witness ==
  /\ Len(history) = 2
  /\ contributed(history[1]) = <<>>
  /\ contributed(history[2]) # <<>>
  /\ last.op = "recognize"
  /\ last.input = <<>>
  /\ last.outcome = "result"
  /\ last.entries[1].handler = "index"

\* What recognize can return for a path, one outcome per order the sort may
\* leave the solutions in.
outcomesOf(path, locals) ==
  {recognize(engine, locals, path, encodeAndDecode, sorted) :
     sorted \in sortSolutions(states, locals.solutions)}

\* The path asked for is some p, longer than one character and not ending in
\* '/', followed by one '/'; it has no query and no fragment.
slashAppended ==
  /\ last.op = "recognize"
  /\ Len(last.input) > 2
  /\ last.input[Len(last.input)] = "/"
  /\ last.input[Len(last.input) - 1] # "/"
  /\ indexOf(last.input, "?") = 0
  /\ indexOf(last.input, "#") = 0

withoutSlash == SubSeq(last.input, 1, Len(last.input) - 1)

\* The call chose an accepting state whose extraction pattern does not end in
\* a Star capture.
choseNoStar ==
  /\ last.state # 0
  /\ states[last.state].handlers # None
  /\ ~ endsWithStar(states[last.state].regex[1])

\* C20: recognize(p + "/") selects the state recognize(p) selects, and returns
\* what recognize(p) returns when the pattern of that state does not end in a
\* Star capture; the path "/" is not shortened.
C20_TrailingSlash ==
  /\ (last.op = "recognize" /\ last.input = <<"/">> /\ last.walked) => ~ last.isSlashDropped
  /\ slashAppended =>
       \E plain \in outcomesOf(withoutSlash,
                               recognizeLocals(engine, withoutSlash, encodeAndDecode)) :
         /\ plain.state = last.state
         /\ choseNoStar =>
              /\ plain.outcome = last.outcome
              /\ plain.error = last.error
              /\ plain.entries = last.entries
              /\ plain.queryParams = last.queryParams

\* C21: after every prefix of the path the walk has consumed, no state occurs
\* twice in the frontier.
C21_FrontierIsSet ==
  last.op = "walk" =>
    \A i, j \in DOMAIN last.frontier : last.frontier[i] = last.frontier[j] => i = j

\* The state a batch ends on: the one add would mark were the batch added now.
endsOn(reg) == add(engine, reg.routes, None).currentState

\* The extraction pattern of segments: '^', a '/' and its regex for every
\* segment that is not Epsilon (a lone '/' when there is none), '$'.
patternFrom(segments) ==
  <<"^">>
    \o (IF segments = <<>> THEN <<"/">>
        ELSE concat([i \in DOMAIN segments |-> <<"/">> \o segmentRegex(segments[i])]))
    \o <<"$">>

patternOf(reg) ==
  patternFrom(SelectSeq(concat([r \in DOMAIN reg.routes |-> parse(reg.routes[r].path).results]),
                        LAMBDA segment : segment.type # "epsilon"))

\* State s carries the handlers, the pattern and the specificity of batch reg.
marks(reg, s) ==
  /\ states[s].handlers
       = Some([i \in DOMAIN reg.routes |->
                 [handler |-> reg.routes[i].handler,
                  names |-> parse(reg.routes[i].path).names,
                  shouldDecodes |-> parse(reg.routes[i].path).shouldDecodes]])
  /\ states[s].regex = Some(patternOf(reg))
  /\ states[s].specificity
       = Some([val |-> Some(scoreOf(parse(lastRoute(reg).path).results))])

\* Every accepting state is as the batch that marked it last left it, and a
\* result of recognize names the handlers of that batch only.
lastWins ==
  /\ \A s \in DOMAIN states :
       states[s].handlers # None => s \in DOMAIN owner /\ marks(owner[s], s)
  /\ Chosen =>
       [i \in DOMAIN last.entries |-> last.entries[i].handler]
         = [i \in DOMAIN owner[last.state].routes |-> owner[last.state].routes[i].handler]

\* A call of add changes the accepting mark of no state but the one it ends on.
othersKept ==
  Len(history') = Len(history) + 1 =>
    \A s \in DOMAIN states :
      (states[s].handlers # None /\ s # endsOn(history'[Len(history')])) =>
        /\ states'[s].handlers = states[s].handlers
        /\ states'[s].regex = states[s].regex
        /\ states'[s].specificity = states[s].specificity

\* C22: when a later add ends on a state an earlier add made accepting, the
\* state's handlers, pattern and specificity are the later batch's, the add
\* modifies no other accepting state, and recognize returns the later batch's
\* handlers only.
C22_LastWins == [] lastWins /\ [][othersKept]_vars

C22_Witness ==
  /\ Len(history) = 2
  /\ history[1].routes # history[2].routes
  /\ endsOn(history[1]) = endsOn(history[2])
  /\ Chosen
  /\ last.state = endsOn(history[2])
  /\ Len(last.entries) = Len(history[2].routes)
  /\ Len(history[1].routes) # Len(history[2].routes)

\* The engine as it was after the first k calls of add.
RECURSIVE engineAfter(_)
engineAfter(k) ==
  IF k = 0 THEN [states |-> <<rootState>>, names |-> <<>>]
  ELSE [states |-> add(engineAfter(k - 1), history[k].routes, history[k].as).states,
        names |-> add(engineAfter(k - 1), history[k].routes, history[k].as).names]

\* recognize(path) on engine `this` returns a result, whatever order the sort
\* leaves the solutions in.
resultOn(this, path, locals) ==
  \A sorted \in sortSolutions(this.states, locals.solutions) :
    recognize(this, locals, path, encodeAndDecode, sorted).outcome = "result"

\* A path that had a result before some of the calls of add has one now.
resultKept ==
  last.op = "recognize" =>
    \A k \in 0..(Len(history) - 1) :
      resultOn(engineAfter(k), last.input,
               recognizeLocals(engineAfter(k), last.input, encodeAndDecode))
        => last.outcome = "result"

\* A step removes no state, no edge and no accepting mark.
neverRemoves ==
  /\ Len(states') >= Len(states)
  /\ \A s \in DOMAIN states :
       /\ Len(states'[s].nextStates) >= Len(states[s].nextStates)
       /\ SubSeq(states'[s].nextStates, 1, Len(states[s].nextStates)) = states[s].nextStates
       /\ states'[s].charSpec = states[s].charSpec
       /\ states[s].handlers # None => states'[s].handlers # None

\* C23: once recognize(path) returns a result it returns one after every
\* further add, and add removes no state, no edge and no accepting mark.
C23_Monotone == [] resultKept /\ [][neverRemoves]_vars

====
